---- MODULE Spec2Model ----
(***************************************************************************)
(* Model of simple_app.py: a Streamlit script that loads the weather       *)
(* records of a department through the cached load_data, and renders       *)
(* three visualizations with plot_visualizations.                          *)
(*                                                                         *)
(* A record set (pandas DataFrame) is a record                             *)
(*   [cols |-> set of column names,                                        *)
(*    dt   |-> TRUE iff the date column has a datetime64 dtype,            *)
(*    rows |-> sequence of rows, each a function from cols to cells]       *)
(* and a cell is <<>> (NaN, a missing value) or <<v>> (the value v).       *)
(* Dates are integers YYYYMMDD.  A mean is <<>> (NaN) or the reduced       *)
(* fraction <<numerator, denominator>>.                                    *)
(***************************************************************************)
EXTENDS Integers, Sequences, FiniteSets, TLC

VARIABLES
    pc,        \* position of the script run
    dept,      \* dept_code typed in the sidebar for this run
    df,        \* main's df (result of load_data); the argument of plot_visualizations
    pdf,       \* plot_visualizations' local df (renamed, with Year)
    out,       \* the elements rendered on the page by this run, in order
    calls,     \* the functions called by this run, in order
    cache,     \* st.cache_data's store for load_data: dept_code -> <<>> or <<entry>>
    fetches,   \* dept_code -> number of calls of f.process_weather_data so far
    failed,    \* dept codes for which f.process_weather_data has raised
    openFigs,  \* number of matplotlib figures currently open in the process
    top,       \* top_station_id of visualization 1: <<>> or <<id>>
    series,    \* df_annual of visualization 1: sequence of [Year, TN_float]
    source,    \* what f.process_weather_data returns for each dept when it succeeds
    lookupError,  \* the exception [0] raises on an empty Series in the installed pandas
    returned   \* dept_code -> <<>> or <<the record set load_data last returned for it>>

vars == <<pc, dept, df, pdf, out, calls, cache, fetches, failed, openFigs,
          top, series, source, lookupError, returned>>

----------------------------------------------------------------------------
(* Bounds *)

MaxRows == 3
MaxOpenFigs == 2
MaxFetches == 2

\* two department codes: enough for a code to be loaded again after another
Depts == {1, 2}
StationIds == {1, 2}
Temps == {-3, 2}
Dates == {20001231, 20010101}
\* the calendar years around Dates
Years == 1999..2002

----------------------------------------------------------------------------
(* Record sets *)

NaN == <<>>

SrcCols == {"station_id", "station_name", "date", "tmin",
            "latitude", "longitude", "alti"}

MapCols == {"NUM_POSTE", "NOM_USUEL", "LAT_float", "LON_float", "ALTI_float"}

\* pd.DataFrame(): no column, no row
EmptyFrame == [cols |-> {}, dt |-> FALSE, rows |-> <<>>]

\* DataFrame.empty: some axis has length 0
Empty(d) == d.cols = {} \/ Len(d.rows) = 0

\* the columns mapping of df.rename
RenameCol(c) ==
    CASE c = "tmin" -> "TN_float"
      [] c = "latitude" -> "LAT_float"
      [] c = "longitude" -> "LON_float"
      [] c = "alti" -> "ALTI_float"
      [] c = "station_id" -> "NUM_POSTE"
      [] c = "station_name" -> "NOM_USUEL"
      [] c = "date" -> "AAAAMMJJ"
      [] OTHER -> c

RenameRow(r) ==
    [c \in {RenameCol(k) : k \in DOMAIN r} |->
        r[CHOOSE k \in DOMAIN r : RenameCol(k) = c]]

Rename(d) ==
    [cols |-> {RenameCol(c) : c \in d.cols},
     dt   |-> d.dt,
     rows |-> [i \in 1..Len(d.rows) |-> RenameRow(d.rows[i])]]

\* Series.dt.year
YearOf(date) == date \div 10000

\* the date guard of plot_visualizations
DateUsable(d) == "AAAAMMJJ" \in d.cols /\ d.dt

WithYear(d) ==
    [cols |-> d.cols \cup {"Year"},
     dt   |-> d.dt,
     rows |-> [i \in 1..Len(d.rows) |->
                 [c \in d.cols \cup {"Year"} |->
                    IF c = "Year"
                    THEN IF d.rows[i]["AAAAMMJJ"] = NaN
                         THEN NaN
                         ELSE <<YearOf(d.rows[i]["AAAAMMJJ"][1])>>
                    ELSE d.rows[i][c]]]]

----------------------------------------------------------------------------
(* Helpers on sequences and numbers *)

RECURSIVE SortedSeq(_)
SortedSeq(S) ==
    IF S = {} THEN <<>>
    ELSE LET m == CHOOSE x \in S : \A y \in S : x <= y
         IN <<m>> \o SortedSeq(S \ {m})

RECURSIVE SumSeq(_)
SumSeq(s) == IF s = <<>> THEN 0 ELSE Head(s) + SumSeq(Tail(s))

Abs(x) == IF x < 0 THEN -x ELSE x

RECURSIVE Gcd(_, _)
Gcd(a, b) == IF b = 0 THEN a ELSE Gcd(b, a % b)

\* the arithmetic mean of the non-NaN cells of s; NaN when there is none
Mean(s) ==
    LET present == SelectSeq(s, LAMBDA c : c # NaN)
        total == SumSeq([i \in 1..Len(present) |-> present[i][1]])
        n == Len(present)
        g == Gcd(Abs(total), n)
    IN IF n = 0 THEN NaN ELSE <<total \div g, n \div g>>

Column(d, c) == [i \in 1..Len(d.rows) |-> d.rows[i][c]]

----------------------------------------------------------------------------
(* Streamlit calls.  A piece of the script is a sequence of events: the     *)
(* st.* calls, named after the element they render, and the pyplot calls    *)
(* that open and close a figure.  The script runner serves a pending rerun  *)
(* or stop request inside an st.* call, before the element is rendered, by  *)
(* raising an exception that derives from BaseException: no handler of the  *)
(* script catches it and the run ends there.                                *)

PyplotCalls == {"plt.subplots", "plt.close"}

\* st.* calls that render no element of their own: the page configuration,
\* and the placeholder that st.cache_data opens for its spinner when the
\* cached function is entered and empties when it is left
Silent == {"set_page_config", "spinner_open", "spinner_close"}

\* the places where a piece may end: before its n-th event when that is an
\* st.* call, or after its last event (n = Len(ev) + 1)
Stops(ev) == {n \in 1..Len(ev) : ev[n] \notin PyplotCalls} \cup {Len(ev) + 1}

\* the events that ran when the piece ended at n
Ran(ev, n) == SubSeq(ev, 1, n - 1)

\* the elements rendered by events
Shown(ev) == SelectSeq(ev, LAMBDA e : e \notin PyplotCalls \cup Silent)

\* figures opened minus figures closed by events
FigDelta(ev) ==
    Len(SelectSeq(ev, LAMBDA e : e = "plt.subplots"))
    - Len(SelectSeq(ev, LAMBDA e : e = "plt.close"))

----------------------------------------------------------------------------
(* Visualization 1: annual mean of TN for the most frequent station *)

Count(s, v) == Cardinality({i \in 1..Len(s) : s[i] = <<v>>})

\* Series.mode(): the most frequent non-NaN values, in ascending order
Mode(s) ==
    LET vals == {s[i][1] : i \in {j \in 1..Len(s) : s[j] # NaN}}
        best == {v \in vals : \A w \in vals : Count(s, v) >= Count(s, w)}
    IN SortedSeq(best)

\* a selection that keeps the rows of every station
StationRows_AllStations(d, station) == d.rows

\* df[df['NUM_POSTE'] == top_station_id]
StationRows(d, station) ==
    SelectSeq(d.rows, LAMBDA r : r["NUM_POSTE"] = <<station>>)

\* df_station.groupby('Year')['TN_float'].mean().reset_index()
AnnualMean(rows) ==
    LET years == SortedSeq({rows[i]["Year"][1] :
                               i \in {j \in 1..Len(rows) : rows[j]["Year"] # NaN}})
    IN [k \in 1..Len(years) |->
          [Year |-> years[k],
           TN_float |-> Mean([i \in 1..Len(SelectSeq(rows,
                                  LAMBDA r : r["Year"] = <<years[k]>>)) |->
                               SelectSeq(rows,
                                  LAMBDA r : r["Year"] = <<years[k]>>)[i]["TN_float"]])]]

\* mode() of a column without any value is an empty Series, and [0] on it is
\* a label lookup: it raises KeyError(0) in pandas >= 1.1 and IndexError in
\* older releases.  The process runs one pandas, whichever is installed.
LookupErrors == {"KeyError", "IndexError"}

\* lines 66-86: the events of the section and the locals it assigns.
\* The exception of the empty mode is caught by the handler of its type:
\* IndexError by lines 83-84 (warning), KeyError by lines 85-86 (error).
Viz1(d) ==
    IF "NUM_POSTE" \notin d.cols
    THEN [events |-> <<"header1", "error_col1">>, top |-> <<>>, series |-> <<>>]
    ELSE IF Mode(Column(d, "NUM_POSTE")) = <<>>
    THEN [events |-> <<"header1", IF lookupError = "IndexError"
                                  THEN "warning1" ELSE "error_col1">>,
          top |-> <<>>, series |-> <<>>]
    ELSE IF "TN_float" \notin d.cols
    THEN [events |-> <<"header1", "error_col1">>,
          top |-> <<Mode(Column(d, "NUM_POSTE"))[1]>>, series |-> <<>>]
    ELSE [events |-> <<"header1", "plt.subplots", "pyplot1", "markdown1",
                       "plt.close">>,
          top |-> <<Mode(Column(d, "NUM_POSTE"))[1]>>,
          series |-> AnnualMean(StationRows(d, Mode(Column(d, "NUM_POSTE"))[1]))]

----------------------------------------------------------------------------
(* Visualization 2: map and scatter plot of the stations *)

RECURSIVE DropDuplicates(_)
DropDuplicates(s) ==
    IF s = <<>> THEN <<>>
    ELSE LET init == DropDuplicates(SubSeq(s, 1, Len(s) - 1))
             last == s[Len(s)]
         IN IF \E i \in 1..Len(init) : init[i] = last
            THEN init ELSE Append(init, last)

\* df[[...]].drop_duplicates().dropna(subset=['LAT_float', 'LON_float'])
StationsMap(d) ==
    SelectSeq(DropDuplicates([i \in 1..Len(d.rows) |->
                                 [c \in MapCols |-> d.rows[i][c]]]),
              LAMBDA r : r["LAT_float"] # NaN /\ r["LON_float"] # NaN)

\* lines 90-119; raised is TRUE when the column selection raises KeyError,
\* which no handler of plot_visualizations catches
Viz2(d) ==
    IF ~(MapCols \subseteq d.cols)
    THEN [events |-> <<"header2">>, raised |-> TRUE]
    ELSE IF StationsMap(d) # <<>>
    THEN [events |-> <<"header2", "subheader_map", "map", "subheader_scatter",
                       "plt.subplots", "pyplot2", "plt.close">>,
          raised |-> FALSE]
    ELSE [events |-> <<"header2", "warning2">>, raised |-> FALSE]

----------------------------------------------------------------------------
(* Visualization 3: box plot of TN by year *)

\* lines 123-138: fig3 is created before df.boxplot looks the column up
Viz3(d) ==
    IF "TN_float" \notin d.cols
    THEN [events |-> <<"header3", "plt.subplots", "error_col3">>]
    ELSE [events |-> <<"header3", "plt.subplots", "pyplot3", "markdown3",
                       "plt.close">>]

----------------------------------------------------------------------------
(* plot_visualizations, one action per section *)

\* lines 47-62: rename the columns, compute Year or give up
PlotPrepare ==
    /\ pc = "plot"
    /\ IF DateUsable(Rename(df))
       THEN /\ pdf' = WithYear(Rename(df))
            /\ out' = out
            /\ pc' = "viz1"
       ELSE /\ pdf' = Rename(df)
            /\ \E n \in Stops(<<"error_date">>) :
                 /\ out' = out \o Shown(Ran(<<"error_date">>, n))
                 /\ pc' = IF n = 1 THEN "interrupted" ELSE "done"
    /\ UNCHANGED <<dept, df, calls, cache, fetches, failed, openFigs, top,
                   series, source, lookupError, returned>>

PlotViz1 ==
    /\ pc = "viz1"
    /\ \E n \in Stops(Viz1(pdf).events) :
         /\ out' = out \o Shown(Ran(Viz1(pdf).events, n))
         /\ openFigs' = openFigs + FigDelta(Ran(Viz1(pdf).events, n))
         /\ top' = IF n > 1 THEN Viz1(pdf).top ELSE top
         /\ series' = IF n > 1 THEN Viz1(pdf).series ELSE series
         /\ pc' = IF n <= Len(Viz1(pdf).events) THEN "interrupted" ELSE "viz2"
    /\ UNCHANGED <<dept, df, pdf, calls, cache, fetches, failed, source,
                   lookupError, returned>>

PlotViz2 ==
    /\ pc = "viz2"
    /\ \E n \in Stops(Viz2(pdf).events) :
         /\ out' = out \o Shown(Ran(Viz2(pdf).events, n))
         /\ openFigs' = openFigs + FigDelta(Ran(Viz2(pdf).events, n))
         /\ pc' = IF n <= Len(Viz2(pdf).events) THEN "interrupted"
                  ELSE IF Viz2(pdf).raised THEN "crashed" ELSE "viz3"
    /\ UNCHANGED <<dept, df, pdf, calls, cache, fetches, failed, top, series,
                   source, lookupError, returned>>

PlotViz3 ==
    /\ pc = "viz3"
    /\ \E n \in Stops(Viz3(pdf).events) :
         /\ out' = out \o Shown(Ran(Viz3(pdf).events, n))
         /\ openFigs' = openFigs + FigDelta(Ran(Viz3(pdf).events, n))
         /\ pc' = IF n <= Len(Viz3(pdf).events) THEN "interrupted" ELSE "done"
    /\ UNCHANGED <<dept, df, pdf, calls, cache, fetches, failed, top, series,
                   source, lookupError, returned>>

----------------------------------------------------------------------------
(* load_data behind st.cache_data *)

\* the body of load_data: the returned record set and the elements it renders
LoadDataBody(code, raised) ==
    IF raised
    THEN [value |-> EmptyFrame, msgs |-> <<"error_load">>]
    ELSE [value |-> source[code], msgs |-> <<>>]

\* a load_data without memoization: every call is a miss
CacheLookup_AlwaysMiss(code) == <<>>

\* st.cache_data: the entry stored for the argument, <<>> when there is none
CacheLookup(code) == cache[code]

\* a store that keeps successful loads only
CacheStore_SuccessOnly(code, entry) ==
    IF entry.msgs # <<>> THEN cache ELSE [cache EXCEPT ![code] = <<entry>>]

\* st.cache_data: every return of the body is stored, whatever it returned
CacheStore(code, entry) == [cache EXCEPT ![code] = <<entry>>]

----------------------------------------------------------------------------
(* The script, run once per user interaction *)

Finished == pc \in {"idle", "done", "stopped", "crashed", "interrupted"}

\* an interaction reruns the script from the top with the sidebar's dept_code
Rerun(code) ==
    /\ Finished
    /\ openFigs < MaxOpenFigs
    /\ dept' = code
    /\ df' = EmptyFrame
    /\ pdf' = EmptyFrame
    /\ out' = <<>>
    /\ calls' = <<>>
    /\ top' = <<>>
    /\ series' = <<>>
    /\ pc' = "import"
    /\ UNCHANGED <<cache, fetches, failed, openFigs, source, lookupError,
                   returned>>

\* lines 12-16: both imports succeed
ImportOk ==
    /\ pc = "import"
    /\ pc' = "main"
    /\ UNCHANGED <<dept, df, pdf, out, calls, cache, fetches, failed, openFigs,
                   top, series, source, lookupError, returned>>

\* the two messages of the import guard
ImportMessages == <<"error_import", "warning_import">>

\* an import guard without st.stop(): the script goes on after the messages
ImportFail_NoStop ==
    /\ pc = "import"
    /\ \E n \in Stops(ImportMessages) :
         /\ out' = out \o Shown(Ran(ImportMessages, n))
         /\ pc' = IF n <= Len(ImportMessages) THEN "interrupted" ELSE "main"
    /\ UNCHANGED <<dept, df, pdf, calls, cache, fetches, failed, openFigs,
                   top, series, source, lookupError, returned>>

\* lines 17-20: ImportError, two messages and st.stop()
ImportFail ==
    /\ pc = "import"
    /\ \E n \in Stops(ImportMessages) :
         /\ out' = out \o Shown(Ran(ImportMessages, n))
         /\ pc' = IF n <= Len(ImportMessages) THEN "interrupted" ELSE "stopped"
    /\ UNCHANGED <<dept, df, pdf, calls, cache, fetches, failed, openFigs,
                   top, series, source, lookupError, returned>>

\* lines 143-151
MainHead ==
    <<"set_page_config", "title", "sidebar_header", "text_input",
      "info_loading">>

MainStart ==
    /\ pc = "main"
    /\ \E n \in Stops(MainHead) :
         /\ out' = out \o Shown(Ran(MainHead, n))
         /\ pc' = IF n <= Len(MainHead) THEN "interrupted" ELSE "load"
    /\ UNCHANGED <<dept, df, pdf, calls, cache, fetches, failed, openFigs,
                   top, series, source, lookupError, returned>>

\* the st.* calls of one call of load_data whose body or stored entry renders
\* msgs: st.cache_data (line 25, spinner shown by default) wraps them in the
\* two calls of its spinner
LoadEvents(msgs) == <<"spinner_open">> \o msgs \o <<"spinner_close">>

\* line 152.  A stored entry is returned and its elements are replayed.
\* Otherwise the body runs: f.process_weather_data returns or raises, the
\* except branch renders its message, and the result is stored when the
\* body returns.  A run ended at an st.* call leaves load_data without a
\* return and df is not assigned: ended when the spinner opens, nothing
\* has been fetched; ended at the message of the except branch, nothing is
\* stored; ended when the spinner closes, the result of the body is stored
\* or not, as the store comes before or after that call in the Streamlit
\* at hand.
LoadData ==
    /\ pc = "load"
    /\ IF CacheLookup(dept) # <<>>
       THEN /\ \E n \in Stops(LoadEvents(CacheLookup(dept)[1].msgs)) :
                 /\ out' = out \o Shown(Ran(LoadEvents(CacheLookup(dept)[1].msgs), n))
                 /\ IF n <= Len(LoadEvents(CacheLookup(dept)[1].msgs))
                    THEN /\ pc' = "interrupted"
                         /\ UNCHANGED <<df, returned>>
                    ELSE /\ pc' = "status"
                         /\ df' = CacheLookup(dept)[1].value
                         /\ returned' = [returned EXCEPT ![dept] =
                                            <<CacheLookup(dept)[1].value>>]
            /\ calls' = Append(calls, "load_data")
            /\ UNCHANGED <<cache, fetches, failed>>
       ELSE \/ /\ pc' = "interrupted"
               /\ calls' = Append(calls, "load_data")
               /\ UNCHANGED <<df, out, cache, fetches, failed, returned>>
            \/ /\ fetches[dept] < MaxFetches
               /\ \E raised \in BOOLEAN :
                    /\ failed' = IF raised THEN failed \cup {dept} ELSE failed
                    /\ \E n \in Stops(LoadEvents(LoadDataBody(dept, raised).msgs)) \ {1} :
                         /\ out' = out \o Shown(Ran(LoadEvents(LoadDataBody(dept, raised).msgs), n))
                         /\ IF n < Len(LoadEvents(LoadDataBody(dept, raised).msgs))
                            THEN /\ pc' = "interrupted"
                                 /\ UNCHANGED <<df, cache, returned>>
                            ELSE IF n = Len(LoadEvents(LoadDataBody(dept, raised).msgs))
                            THEN /\ pc' = "interrupted"
                                 /\ cache' \in {cache, CacheStore(dept, LoadDataBody(dept, raised))}
                                 /\ UNCHANGED <<df, returned>>
                            ELSE /\ pc' = "status"
                                 /\ df' = LoadDataBody(dept, raised).value
                                 /\ cache' = CacheStore(dept, LoadDataBody(dept, raised))
                                 /\ returned' = [returned EXCEPT ![dept] =
                                                    <<LoadDataBody(dept, raised).value>>]
               /\ fetches' = [fetches EXCEPT ![dept] = @ + 1]
               /\ calls' = calls \o <<"load_data", "process_weather_data">>
    /\ UNCHANGED <<dept, pdf, openFigs, top, series, source, lookupError>>

\* line 153: the placeholder of the info message now shows the success message
ShowStatus ==
    /\ pc = "status"
    /\ \E n \in Stops(<<"success_loaded">>) :
         IF n = 1
         THEN out' = out /\ pc' = "interrupted"
         ELSE /\ out' = [i \in 1..Len(out) |->
                           IF out[i] = "info_loading" THEN "success_loaded"
                           ELSE out[i]]
              /\ pc' = "branch"
    /\ UNCHANGED <<dept, df, pdf, calls, cache, fetches, failed, openFigs,
                   top, series, source, lookupError, returned>>

\* lines 156-159
DataHead == <<"success_rows", "dataframe", "markdown_rule">>

\* a main without the emptiness guard
MainBranch_AlwaysPlot ==
    /\ pc = "branch"
    /\ \E n \in Stops(DataHead) :
         /\ out' = out \o Shown(Ran(DataHead, n))
         /\ IF n <= Len(DataHead)
            THEN calls' = calls /\ pc' = "interrupted"
            ELSE calls' = Append(calls, "plot_visualizations") /\ pc' = "plot"
    /\ UNCHANGED <<dept, df, pdf, cache, fetches, failed, openFigs, top,
                   series, source, lookupError, returned>>

\* lines 155-164
MainBranch ==
    /\ pc = "branch"
    /\ IF ~Empty(df)
       THEN \E n \in Stops(DataHead) :
              /\ out' = out \o Shown(Ran(DataHead, n))
              /\ IF n <= Len(DataHead)
                 THEN calls' = calls /\ pc' = "interrupted"
                 ELSE calls' = Append(calls, "plot_visualizations") /\ pc' = "plot"
       ELSE \E n \in Stops(<<"error_empty">>) :
              /\ out' = out \o Shown(Ran(<<"error_empty">>, n))
              /\ calls' = calls
              /\ pc' = IF n = 1 THEN "interrupted" ELSE "done"
    /\ UNCHANGED <<dept, df, pdf, cache, fetches, failed, openFigs, top,
                   series, source, lookupError, returned>>

----------------------------------------------------------------------------
(* Inputs *)

Cells(S) == {NaN} \cup {<<v>> : v \in S}

Row(st, date, tmin, lat, lon) ==
    [c \in SrcCols |->
        CASE c = "station_id" -> st
          [] c = "station_name" -> st
          [] c = "date" -> date
          [] c = "tmin" -> tmin
          [] c = "latitude" -> lat
          [] c = "longitude" -> lon
          [] c = "alti" -> <<800>>]

Frame(cols, dt, rows) ==
    [cols |-> cols,
     dt   |-> dt /\ "date" \in cols,
     rows |-> [i \in 1..Len(rows) |-> [c \in cols |-> rows[i][c]]]]

\* two stations with coordinates, the second one more frequent
SampleRows ==
    <<Row(<<1>>, <<20001231>>, <<-3>>, <<44>>, <<6>>),
      Row(<<2>>, <<20010101>>, <<2>>, <<44>>, <<6>>),
      Row(<<2>>, <<20010101>>, NaN, <<44>>, <<6>>)>>

\* a row with neither station nor latitude
BlankRows == <<Row(NaN, <<20001231>>, <<2>>, NaN, <<6>>)>>

\* what f.process_weather_data may return: the expected columns, one of them
\* missing, a date column of another dtype, no row, no column, rows without
\* station
SourceFrames ==
    {Frame(SrcCols \ {c}, TRUE, SampleRows) : c \in SrcCols}
    \cup {Frame(SrcCols, TRUE, SampleRows), Frame(SrcCols, FALSE, SampleRows),
          Frame(SrcCols, TRUE, <<>>), Frame({}, FALSE, SampleRows),
          Frame(SrcCols, TRUE, BlankRows)}

\* what f.process_weather_data returns for the second department code is
\* drawn from fewer record sets: the expected one, one without rows and one
\* without the latitude column
OtherFrames ==
    {Frame(SrcCols, TRUE, SampleRows), Frame(SrcCols, TRUE, <<>>),
     Frame(SrcCols \ {"latitude"}, TRUE, SampleRows)}

RichRows ==
    {Row(st, <<d>>, t, <<44>>, <<6>>) :
        st \in Cells(StationIds), d \in Dates, t \in Cells(Temps)}

\* arguments of plot_visualizations: every set of columns, never empty
\* (main's guard)
ColumnFrames ==
    {d \in {Frame(cols, dt, rows) : cols \in SUBSET SrcCols, dt \in BOOLEAN,
                                   rows \in {SampleRows, BlankRows}} :
        ~Empty(d)}

\* arguments of plot_visualizations: every column, up to MaxRows rows
RowFrames ==
    {Frame(SrcCols, TRUE, rows) :
        rows \in UNION {[1..n -> RichRows] : n \in 1..MaxRows}}

PlotFrames == ColumnFrames \cup RowFrames

----------------------------------------------------------------------------
(* Specifications *)

Init ==
    /\ pc = "idle"
    /\ dept = 1
    /\ df = EmptyFrame
    /\ pdf = EmptyFrame
    /\ out = <<>>
    /\ calls = <<>>
    /\ cache = [c \in Depts |-> <<>>]
    /\ fetches = [c \in Depts |-> 0]
    /\ failed = {}
    /\ openFigs = 0
    /\ top = <<>>
    /\ series = <<>>
    /\ source \in {s \in [Depts -> SourceFrames] : s[2] \in OtherFrames}
    /\ lookupError \in LookupErrors
    /\ returned = [c \in Depts |-> <<>>]

Next ==
    \/ \E code \in Depts : Rerun(code)
    \/ ImportOk
    \/ ImportFail
    \/ MainStart
    \/ LoadData
    \/ ShowStatus
    \/ MainBranch
    \/ PlotPrepare
    \/ PlotViz1
    \/ PlotViz2
    \/ PlotViz3

Spec == Init /\ [][Next]_vars

\* plot_visualizations alone, called once on any non-empty record set.  The
\* lookup behaviour is read only on record sets without any station; the
\* older one is explored on those of ColumnFrames (BlankRows).
InitPlot ==
    /\ pc = "plot"
    /\ dept = 1
    /\ df \in PlotFrames
    /\ pdf = EmptyFrame
    /\ out = <<>>
    /\ calls = <<"plot_visualizations">>
    /\ cache = [c \in Depts |-> <<>>]
    /\ fetches = [c \in Depts |-> 0]
    /\ failed = {}
    /\ openFigs = 0
    /\ top = <<>>
    /\ series = <<>>
    /\ source = [c \in Depts |-> EmptyFrame]
    /\ lookupError \in LookupErrors
    /\ lookupError = "IndexError" => df \in ColumnFrames
    /\ returned = [c \in Depts |-> <<>>]

NextPlot == PlotPrepare \/ PlotViz1 \/ PlotViz2 \/ PlotViz3

SpecPlot == InitPlot /\ [][NextPlot]_vars

----------------------------------------------------------------------------
(* Properties *)

Elems(s) == {s[i] : i \in 1..Len(s)}

Messages == {"error_date", "error_col1", "warning1", "warning2", "error_col3"}

Headers == {"header1", "header2", "header3"}

Rendered == Headers \cup {"pyplot1", "markdown1", "subheader_map", "map",
                          "subheader_scatter", "pyplot2", "pyplot3",
                          "markdown3", "dataframe", "success_rows"}

PlotEnded == pc \in {"done", "crashed"} /\ "plot_visualizations" \in Elems(calls)

\* C1: for every non-empty record set and every set of missing columns, no
\* exception escapes plot_visualizations, and when a column is missing the
\* call ends with an inline error or warning message on the page.
C1_NoExceptionEscapesPlot ==
    /\ ("plot_visualizations" \in Elems(calls)) => pc # "crashed"
    /\ (PlotEnded /\ df.cols # SrcCols) => Elems(out) \cap Messages # {}

\* the step of load_data in a run
LoadStep == pc = "load" /\ pc' # "load"

\* C2 as stated: f.process_weather_data is called at most once per
\* department code, and a run whose code was fetched before gets the record
\* set of that fetch without a new call.
C2_FetchedOncePerDept ==
    [][/\ \A c \in Depts : fetches'[c] <= 1
       /\ (LoadStep /\ fetches[dept] >= 1) =>
             "process_weather_data" \notin Elems(calls')]_vars

\* C2 as amended: once the result of load_data is stored for a department
\* code, and so once a call of load_data has returned for it,
\* f.process_weather_data is never called for that code again and the
\* stored result stays; every later call of load_data that returns gives
\* the record set returned before.
C2_NoFetchAfterReturn ==
    [][/\ \A c \in Depts :
            cache[c] # <<>> => (fetches'[c] = fetches[c] /\ cache'[c] = cache[c])
       /\ \A c \in Depts :
            returned'[c] # <<>> =>
                (cache'[c] # <<>> /\ cache'[c][1].value = returned'[c][1])
       /\ (LoadStep /\ returned[dept] # <<>>) =>
             /\ "process_weather_data" \notin Elems(calls')
             /\ pc' = "status" => df' = returned[dept][1]]_vars

\* a run served from the cache, with data, after the one call for its code
C2_Witness ==
    /\ pc = "status"
    /\ calls = <<"load_data">>
    /\ fetches[dept] = 1
    /\ returned[dept] = <<df>>
    /\ Len(df.rows) > 0

\* a run of main that is over and in which load_data returned: line 153 has
\* replaced the loading message
MainEnded ==
    /\ pc \in {"done", "crashed", "interrupted"}
    /\ "success_loaded" \in Elems(out)

\* C3 as stated: in every run of main, plot_visualizations is called iff
\* load_data returned a record set with at least one row and one column,
\* and when it has none the 'DataFrame est vide' error is shown and no
\* chart, table or section header is rendered.
C3_PlotIffNonEmpty ==
    MainEnded =>
        /\ ("plot_visualizations" \in Elems(calls))
              <=> (Len(df.rows) > 0 /\ df.cols # {})
        /\ (Len(df.rows) = 0 \/ df.cols = {}) =>
              /\ "error_empty" \in Elems(out)
              /\ Elems(out) \cap Rendered = {}

\* C3 as amended: in every run, plot_visualizations is called only for a
\* record set with at least one row and one column, the 'DataFrame est
\* vide' error is shown only for a record set without, and while the run
\* has no such record set no chart, table or section header is rendered.
\* A run of main that is not ended early gets past its branch: it has
\* called plot_visualizations iff the record set has a row and a column,
\* and when it has none it ended normally with the error as last element.
C3_PlotOnlyIfNonEmpty ==
    /\ ("plot_visualizations" \in Elems(calls)) =>
          (Len(df.rows) > 0 /\ df.cols # {})
    /\ ("error_empty" \in Elems(out)) =>
          /\ Len(df.rows) = 0 \/ df.cols = {}
          /\ pc = "done"
    /\ (Len(df.rows) = 0 \/ df.cols = {}) =>
          /\ Elems(out) \cap Rendered = {}
          /\ "plot_visualizations" \notin Elems(calls)
    /\ (pc \in {"plot", "viz1", "viz2", "viz3", "done", "crashed"}) =>
          /\ ("plot_visualizations" \in Elems(calls))
                <=> (Len(df.rows) > 0 /\ df.cols # {})
          /\ (Len(df.rows) = 0 \/ df.cols = {}) =>
                /\ pc = "done"
                /\ out[Len(out)] = "error_empty"

\* a run whose fetch returned without raising, with no row
C3_Witness ==
    /\ pc = "done"
    /\ "error_empty" \in Elems(out)
    /\ "error_load" \notin Elems(out)
    /\ "process_weather_data" \in Elems(calls)

\* C4 as stated: a run whose import fails shows the error message and the
\* warning message and then stops, with no function called and nothing of
\* main rendered.
C4_ImportFailureStops ==
    [][(pc = "import" /\ pc' # "main") =>
          /\ pc' = "stopped"
          /\ out' = <<"error_import", "warning_import">>
          /\ calls' = <<>>]_vars

\* C4 as amended: a run whose import fails calls no function and renders
\* nothing of main, in that run nothing is fetched or stored, and it shows
\* the error message, then the warning message, and stops at st.stop(),
\* unless it is ended early at one of the two messages: then it shows the
\* messages before that one only.  No run goes on after the error message.
C4_ImportFailureShowsGuardOnly ==
    [][/\ (pc = "import" /\ pc' # "main") =>
            /\ pc' \in {"stopped", "interrupted"}
            /\ out' \in {<<>>, <<"error_import">>,
                          <<"error_import", "warning_import">>}
            /\ (pc' = "stopped") <=> (out' = <<"error_import", "warning_import">>)
            /\ calls' = <<>>
            /\ UNCHANGED <<fetches, cache, returned, df>>
       /\ ("error_import" \in Elems(out')) =>
            /\ pc' \in {"stopped", "interrupted"}
            /\ calls' = <<>>
       /\ (pc' = "stopped") =>
            /\ out' = <<"error_import", "warning_import">>
            /\ calls' = <<>>]_vars

\* an import failure in a run that follows a successful load of the same code
C4_Witness ==
    /\ pc = "stopped"
    /\ "error_import" \in Elems(out)
    /\ fetches[dept] = 1

\* C5: when plot_visualizations has ended, every section whose own columns
\* are present (and usable, and for section 1 hold a station) has been
\* rendered, whatever happened to the other sections.
C5_OtherSectionsRendered ==
    PlotEnded =>
        /\ (/\ {"station_id", "date", "tmin"} \subseteq df.cols /\ df.dt
            /\ \E i \in 1..Len(df.rows) : df.rows[i]["station_id"] # NaN) =>
              "pyplot1" \in Elems(out)
        /\ ({"station_id", "station_name", "latitude", "longitude", "alti"}
               \subseteq df.cols) =>
              Elems(out) \cap {"map", "warning2"} # {}
        /\ ({"date", "tmin"} \subseteq df.cols /\ df.dt) =>
              "pyplot3" \in Elems(out)

\* the rows of station st in the record set passed to plot_visualizations
RowsOf(st) == {i \in 1..Len(df.rows) : df.rows[i]["station_id"] = <<st>>}

\* the rows of station st dated in calendar year y
RowsIn(st, y) ==
    {i \in RowsOf(st) : /\ y * 10000 <= df.rows[i]["date"][1]
                        /\ df.rows[i]["date"][1] < (y + 1) * 10000}

\* the rows of RowsIn(st, y) that have a minimum temperature
Measured(st, y) == {i \in RowsIn(st, y) : df.rows[i]["tmin"] # NaN}

RECURSIVE SumOver(_)
SumOver(I) ==
    IF I = {} THEN 0
    ELSE LET i == CHOOSE j \in I : TRUE
         IN df.rows[i]["tmin"][1] + SumOver(I \ {i})

\* C6: once visualization 1 has run on a record set with station_id, a
\* datetime date and tmin, the chosen station has at least as many rows as
\* every other station, and the series has exactly one point per year in
\* which that station has rows, in ascending order, whose value is the mean
\* of the minimum temperatures of that station's rows of that year.
C6_TopStationAnnualMean ==
    (/\ pc \in {"viz2", "viz3", "done", "crashed"}
     /\ {"station_id", "date", "tmin"} \subseteq df.cols /\ df.dt) =>
        /\ (top = <<>>) <=> (\A st \in StationIds : RowsOf(st) = {})
        /\ top # <<>> =>
              /\ \A st \in StationIds :
                    Cardinality(RowsOf(top[1])) >= Cardinality(RowsOf(st))
              /\ {series[k].Year : k \in 1..Len(series)}
                    = {y \in Years : RowsIn(top[1], y) # {}}
              /\ \A k, l \in 1..Len(series) :
                    k < l => series[k].Year < series[l].Year
              /\ \A k \in 1..Len(series) :
                    LET I == Measured(top[1], series[k].Year)
                        m == series[k].TN_float
                    IN IF I = {} THEN m = NaN
                       ELSE /\ m # NaN
                            /\ m[2] > 0
                            /\ m[1] * Cardinality(I) = SumOver(I) * m[2]

\* the most frequent station has two different temperatures in one year,
\* and another station, listed first, has a row too
C6_Witness ==
    /\ pc = "done"
    /\ top = <<2>>
    /\ 1 \in RowsOf(1)
    /\ \E k \in 1..Len(series) : series[k].TN_float = <<-1, 2>>

\* C7: without a usable date column the call renders exactly the date error
\* and nothing else; otherwise every row's Year is the calendar year of its
\* date and the three section headers are rendered, in the order 1, 2, 3.
C7_DateGuardThenThreeSections ==
    PlotEnded =>
        IF ~("date" \in df.cols /\ df.dt)
        THEN out = <<"error_date">>
        ELSE /\ Len(pdf.rows) = Len(df.rows)
             /\ \A i \in 1..Len(df.rows) :
                  /\ pdf.rows[i]["Year"] # NaN
                  /\ pdf.rows[i]["Year"][1] * 10000 <= df.rows[i]["date"][1]
                  /\ df.rows[i]["date"][1] < (pdf.rows[i]["Year"][1] + 1) * 10000
             /\ SelectSeq(out, LAMBDA e : e \in Headers)
                  = <<"header1", "header2", "header3">>

\* C8 as stated: after load_data failed for a code (the fetch raised and
\* the empty record set was returned), a later run with that code calls
\* f.process_weather_data again.
C8_FailedLoadIsRetried ==
    [][(LoadStep /\ dept \in failed /\ returned[dept] = <<EmptyFrame>>) =>
          fetches'[dept] = fetches[dept] + 1]_vars

\* C8 as amended: a failed load is remembered.  After load_data returned
\* the empty record set for a code whose fetch raised, a run with that code
\* does not call f.process_weather_data again: load_data gives the empty
\* record set and the load error message from the cache.
C8_FailedLoadIsRemembered ==
    [][(LoadStep /\ dept \in failed /\ returned[dept] = <<EmptyFrame>>) =>
          /\ fetches' = fetches
          /\ "process_weather_data" \notin Elems(calls')
          /\ pc' = "status" =>
                /\ df' = EmptyFrame
                /\ out' = Append(out, "error_load")]_vars

\* a later run with a code whose load failed, served from the cache
C8_Witness ==
    /\ pc = "status"
    /\ dept \in failed
    /\ returned[dept] = <<EmptyFrame>>
    /\ fetches[dept] = 1
    /\ calls = <<"load_data">>
    /\ df = EmptyFrame
    /\ "error_load" \in Elems(out)

\* C9: the status message 'Donnees chargees!' is on the page only when
\* load_data returned a non-empty record set, never together with the load
\* error or the 'DataFrame est vide' error.
C9_LoadedMessageOnlyOnSuccess ==
    ("success_loaded" \in Elems(out)) =>
        /\ Len(df.rows) > 0 /\ df.cols # {}
        /\ "error_load" \notin Elems(out)
        /\ "error_empty" \notin Elems(out)

\* C10: when a call of plot_visualizations has ended, every figure it
\* created is closed: as many figures are open as before the call.
C10_FiguresClosed ==
    PlotEnded => openFigs = 0

====
